---------------------------- MODULE Spec2Model ----------------------------
(***************************************************************************)
(* Model of the waste-collection pipeline                                  *)
(*   main: scrape_url_get_html -> parse_to_json -> beautify -> show_result *)
(* Text is modelled as TLA+ strings handled character by character, so     *)
(* that the regular expressions and the formatting of the source are       *)
(* computed, not assumed.                                                  *)
(***************************************************************************)
EXTENDS Integers, Sequences, FiniteSets, TLC

VARIABLES
    pc,             \* position of the running call
    step,           \* scrape_url_get_html: index of the next Playwright call
    pwRunning,      \* sync_playwright() context manager entered, not exited
    browserOpen,    \* p.chromium.launch() returned, browser.close() not run
    contextOpen,    \* browser.new_context() returned, context.close() not run
    acquired,       \* the call obtained a browser and a page context
    closeCalls,     \* the explicit close calls executed, in order
    failedAt,       \* <<step name, outcome>> of the call that raised, or <<>>
    stepsRun,       \* names of the Playwright calls executed, in order
    html_or_error,  \* main: value returned by scrape_url_get_html
    parsed,         \* main: value returned by parse_to_json, then by beautify
    extracted,      \* value parse_to_json returned (kept for comparison)
    shown,          \* the result argument show_result received
    calls,          \* stages invoked by main, in order
    now,            \* datetime.now().date() read by beautify
    raw,            \* format_collection_date: argument
    formatted,      \* format_collection_date: return value
    html,           \* parse_to_json: argument
    input_data,     \* beautify: argument
    output,         \* beautify: return value
    outModule,      \* output.py: "unloaded", "loaded", or "failed" (import raised)
    driver,         \* whether "from TP_lib import epd2in13_V4" succeeded
    EPD_AVAILABLE,  \* output.EPD_AVAILABLE
    clock,          \* time.time(), in seconds
    last_refresh_time,  \* output._last_refresh_time, 0 for None
    last_full_refresh,  \* output._last_full_refresh, 0 for None
    partial_count,  \* output._partial_count
    terminal,       \* lines the last show_result call printed
    panel,          \* what the last show_result call pushed to the panel
    showOutcome     \* how the last show_result call ended

vars == <<pc, step, pwRunning, browserOpen, contextOpen, acquired, closeCalls,
          failedAt, stepsRun, html_or_error, parsed, extracted, shown, calls,
          now, raw, formatted, html, input_data, output,
          outModule, driver, EPD_AVAILABLE, clock, last_refresh_time,
          last_full_refresh, partial_count, terminal, panel, showOutcome>>

scrapeVars == <<step, pwRunning, browserOpen, contextOpen, acquired,
                closeCalls, failedAt, stepsRun>>

outputVars == <<outModule, driver, EPD_AVAILABLE, clock, last_refresh_time,
                last_full_refresh, partial_count, terminal, panel, showOutcome>>

None == [t |-> "none"]

\* the element of a one-element set; {F(x) : x \in {e}} binds e's value to x,
\* as an assignment to a local variable does
The(S) == CHOOSE x \in S : TRUE

-----------------------------------------------------------------------------
(* Characters and strings *)

Ch(s, i) == SubSeq(s, i, i)

LowerAlpha == "abcdefghijklmnopqrstuvwxyz"
UpperAlpha == "ABCDEFGHIJKLMNOPQRSTUVWXYZ"
DigitChars == "0123456789"

LowerSet == {Ch(LowerAlpha, i) : i \in 1..Len(LowerAlpha)}
UpperSet == {Ch(UpperAlpha, i) : i \in 1..Len(UpperAlpha)}
DigitSet == {Ch(DigitChars, i) : i \in 1..Len(DigitChars)}

IsLetter(c) == c \in LowerSet \cup UpperSet
IsDigit(c) == c \in DigitSet
\* \w of the re module, on the ASCII characters the model uses
IsWord(c) == IsLetter(c) \/ IsDigit(c) \/ c = "_"
\* \s of the re module and the characters str.strip() removes
IsSpace(c) == c \in {" ", "\t", "\n"}

IndexIn(c, alpha) == CHOOSE i \in 1..Len(alpha) : Ch(alpha, i) = c

UpperCh(c) == IF c \in LowerSet THEN Ch(UpperAlpha, IndexIn(c, LowerAlpha)) ELSE c
LowerCh(c) == IF c \in UpperSet THEN Ch(LowerAlpha, IndexIn(c, UpperAlpha)) ELSE c

RECURSIVE MapUpper(_)
MapUpper(s) == IF s = "" THEN "" ELSE UpperCh(Ch(s, 1)) \o MapUpper(Tail(s))

RECURSIVE MapLower(_)
MapLower(s) == IF s = "" THEN "" ELSE LowerCh(Ch(s, 1)) \o MapLower(Tail(s))

\* str.title(): a letter is upper-cased when it starts the string or follows
\* a non-letter, lower-cased otherwise
RECURSIVE TitleFrom(_, _)
TitleFrom(s, i) ==
    IF i > Len(s) THEN ""
    ELSE (IF i = 1 \/ ~IsLetter(Ch(s, i - 1))
          THEN UpperCh(Ch(s, i)) ELSE LowerCh(Ch(s, i))) \o TitleFrom(s, i + 1)

Title(s) == TitleFrom(s, 1)

\* the last index j >= i-1 such that s[i..j] are all spaces / digits / word
\* characters: where a greedy \s+, \d+, \w+ started at i stops
SpaceRunEnd(s, i) ==
    CHOOSE j \in (i - 1)..Len(s) :
        /\ \A k \in i..j : IsSpace(Ch(s, k))
        /\ (j = Len(s) \/ ~IsSpace(Ch(s, j + 1)))

DigitRunEnd(s, i) ==
    CHOOSE j \in (i - 1)..Len(s) :
        /\ \A k \in i..j : IsDigit(Ch(s, k))
        /\ (j = Len(s) \/ ~IsDigit(Ch(s, j + 1)))

WordRunEnd(s, i) ==
    CHOOSE j \in (i - 1)..Len(s) :
        /\ \A k \in i..j : IsWord(Ch(s, k))
        /\ (j = Len(s) \/ ~IsWord(Ch(s, j + 1)))

\* the smallest index of a non-empty set: the first match in document order
MinOf(idx) == CHOOSE i \in idx : \A j \in idx : i <= j

\* str.strip()
Strip(s) ==
    LET idx == {i \in 1..Len(s) : ~IsSpace(Ch(s, i))}
    IN  IF idx = {} THEN ""
        ELSE SubSeq(s, CHOOSE i \in idx : \A j \in idx : i <= j,
                       CHOOSE i \in idx : \A j \in idx : i >= j)

\* the "in" operator of str
Contains(s, sub) ==
    \E i \in 1..(Len(s) - Len(sub) + 1) : SubSeq(s, i, i + Len(sub) - 1) = sub

\* the slice s[:n]
Prefix(s, n) == SubSeq(s, 1, IF Len(s) < n THEN Len(s) ELSE n)

StartsWith(s, p) == Len(s) >= Len(p) /\ SubSeq(s, 1, Len(p)) = p

\* int() of a string of decimal digits
RECURSIVE ParseInt(_)
ParseInt(s) ==
    IF s = "" THEN 0
    ELSE 10 * ParseInt(SubSeq(s, 1, Len(s) - 1))
         + (IndexIn(Ch(s, Len(s)), DigitChars) - 1)

\* str() of an integer, as an f-string renders it
RECURSIVE NatStr(_)
NatStr(n) ==
    IF n < 10 THEN Ch(DigitChars, n + 1)
    ELSE NatStr(n \div 10) \o Ch(DigitChars, (n % 10) + 1)

IntStr(n) == IF n < 0 THEN "-" \o NatStr(-n) ELSE NatStr(n)

-----------------------------------------------------------------------------
(* html_to_json.format_collection_date *)

Weekdays == {"Monday", "Tuesday", "Wednesday", "Thursday", "Friday",
             "Saturday", "Sunday"}

\* RawDateMatch without the "$" anchor: text may follow the month word
RawDateMatchUnanchored(s) ==
    LET wds == {w \in Weekdays : StartsWith(s, w)}
    IN  IF wds = {} THEN [ok |-> FALSE]
        ELSE
        LET wd  == CHOOSE w \in wds : TRUE
            s1  == Len(wd) + 1
            e1  == SpaceRunEnd(s, s1)
            e2  == DigitRunEnd(s, e1 + 1)
            e3  == SpaceRunEnd(s, e2 + 1)
            e4  == WordRunEnd(s, e3 + 1)
        IN  IF e1 >= s1 /\ e2 - e1 \in {1, 2} /\ e3 >= e2 + 1 /\ e4 >= e3 + 1
            THEN [ok |-> TRUE, weekday |-> wd,
                  day_str |-> SubSeq(s, e1 + 1, e2),
                  month |-> SubSeq(s, e3 + 1, e4)]
            ELSE [ok |-> FALSE]

\* re.match(r"^(Monday|...|Sunday)\s+(\d{1,2})\s+(\w+)$", raw): the groups,
\* or ok = FALSE.  "$" also matches just before a final newline.
RawDateMatch(s) ==
    LET wds == {w \in Weekdays : StartsWith(s, w)}
    IN  IF wds = {} THEN [ok |-> FALSE]
        ELSE
        LET wd  == CHOOSE w \in wds : TRUE
            s1  == Len(wd) + 1
            e1  == SpaceRunEnd(s, s1)
            e2  == DigitRunEnd(s, e1 + 1)
            e3  == SpaceRunEnd(s, e2 + 1)
            e4  == WordRunEnd(s, e3 + 1)
        IN  IF /\ e1 >= s1
               /\ e2 - e1 \in {1, 2}
               /\ e3 >= e2 + 1
               /\ e4 >= e3 + 1
               /\ (e4 = Len(s) \/ (e4 = Len(s) - 1 /\ Ch(s, Len(s)) = "\n"))
            THEN [ok |-> TRUE, weekday |-> wd,
                  day_str |-> SubSeq(s, e1 + 1, e2),
                  month |-> SubSeq(s, e3 + 1, e4)]
            ELSE [ok |-> FALSE]

\* OrdinalSuffix without the 11..13 exception
OrdinalSuffixNoTeens(day) ==
    CASE day % 10 = 1 -> "st"
      [] day % 10 = 2 -> "nd"
      [] day % 10 = 3 -> "rd"
      [] OTHER -> "th"

OrdinalSuffix(day) ==
    IF 11 <= day /\ day <= 13 THEN "th"
    ELSE CASE day % 10 = 1 -> "st"
           [] day % 10 = 2 -> "nd"
           [] day % 10 = 3 -> "rd"
           [] OTHER -> "th"

format_collection_date(s) ==
    LET m == RawDateMatch(s)
    IN  IF ~m.ok THEN s
        ELSE LET day == ParseInt(m.day_str)
             IN  m.weekday \o ", " \o IntStr(day) \o OrdinalSuffix(day)
                 \o " " \o MapUpper(Prefix(m.month, 3))

-----------------------------------------------------------------------------
(* Values handled by the pipeline: Python objects *)

Str(s) == [t |-> "str", s |-> s]
Dict(items) == [t |-> "dict", items |-> items]
Entry(k, v) == [k |-> k, v |-> v]
\* a value that is neither a str nor a dict
IntObj(n) == [t |-> "int", n |-> n]

ErrorRecord(code) == Dict(<<Entry("Error", Str(code))>>)

Keys(d) == {d.items[i].k : i \in 1..Len(d.items)}

-----------------------------------------------------------------------------
(* html_to_json.parse_to_json *)

\* An HTML fragment is a sequence of top-level elements; each has its class
\* list and, in document order, the elements below it (class list and text).
\* rejected: the markup makes the BeautifulSoup parser raise.
El(classes, text) == [classes |-> classes, text |-> text]
Node(classes, els) == [classes |-> classes, els |-> els]
Fragment(rejected, nodes) == [rejected |-> rejected, nodes |-> nodes]

\* " ".join(classes)
RECURSIVE JoinClasses(_)
JoinClasses(cs) ==
    IF cs = <<>> THEN ""
    ELSE IF Len(cs) = 1 THEN cs[1]
    ELSE cs[1] \o " " \o JoinClasses(Tail(cs))

HasClass(e, c) == \E i \in 1..Len(e.classes) : e.classes[i] = c

\* the mapping of parse_to_json, in insertion order
mapping == <<[css_class |-> "rubbish_collection_difs_black", key |-> "Rubbish"],
             [css_class |-> "rubbish_collection_difs_green", key |-> "Recycling"],
             [css_class |-> "rubbish_collection_difs_purple", key |-> "Food"]>>

\* soup.select(".rubbish_date_wrap")
SelectBlocks(frag) ==
    SelectSeq(frag.nodes, LAMBDA n : HasClass(n, "rubbish_date_wrap"))

NoEl == [present |-> FALSE]
SomeEl(e) == [present |-> TRUE, el |-> e]

\* block.select_one("[class*=rubbish_collection_difs_]")
SelectHeader(block) ==
    LET idx == {i \in 1..Len(block.els) :
                  Contains(JoinClasses(block.els[i].classes),
                           "rubbish_collection_difs_")}
    IN  IF idx = {} THEN NoEl ELSE SomeEl(block.els[MinOf(idx)])

\* block.select_one(".rubbish_date_container_left_datetext")
SelectDateEl(block) ==
    LET idx == {i \in 1..Len(block.els) :
                  HasClass(block.els[i], "rubbish_date_container_left_datetext")}
    IN  IF idx = {} THEN NoEl ELSE SomeEl(block.els[MinOf(idx)])

\* result[key] = value on a dict kept in insertion order
DictSet(items, k, v) ==
    IF \E i \in 1..Len(items) : items[i].k = k
    THEN [i \in 1..Len(items) |->
            IF items[i].k = k THEN Entry(k, v) ELSE items[i]]
    ELSE Append(items, Entry(k, v))

\* the inner loop "for css_class, key in mapping.items()" from entry i on
RECURSIVE MapClasses(_, _, _, _)
MapClasses(result, class_str, date_el, i) ==
    IF i > Len(mapping) THEN result
    ELSE MapClasses(
            IF Contains(class_str, mapping[i].css_class)
            THEN DictSet(result, mapping[i].key,
                         Str(format_collection_date(Strip(date_el.text))))
            ELSE result,
            class_str, date_el, i + 1)

\* ParseBlock without the "not date_el" test: a block with a marker and no
\* date element gets an empty value
ParseBlockNoDateCheck(result, block) ==
    LET header == SelectHeader(block)
        date_el == SelectDateEl(block)
    IN  IF ~header.present THEN result
        ELSE MapClasses(result, JoinClasses(header.el.classes),
                        IF date_el.present THEN date_el.el ELSE El(<<>>, ""), 1)

\* one iteration of "for block in blocks"
ParseBlock(result, block) ==
    LET header == SelectHeader(block)
        date_el == SelectDateEl(block)
    IN  IF ~header.present \/ ~date_el.present THEN result
        ELSE MapClasses(result, JoinClasses(header.el.classes), date_el.el, 1)

RECURSIVE ParseBlocks(_, _, _)
ParseBlocks(result, blocks, i) ==
    IF i > Len(blocks) THEN result
    ELSE ParseBlocks(ParseBlock(result, blocks[i]), blocks, i + 1)

\* parse_to_json whose except clause reports the code Unknown
parse_to_jsonUnknown(frag) ==
    IF frag.rejected THEN ErrorRecord("Unknown")
    ELSE LET blocks == SelectBlocks(frag)
         IN  IF blocks = <<>> THEN ErrorRecord("Invalid HTML")
             ELSE LET result == ParseBlocks(<<>>, blocks, 1)
                  IN  IF result = <<>> THEN ErrorRecord("JSON Mapping")
                      ELSE Dict(result)

parse_to_json(frag) ==
    IF frag.rejected THEN ErrorRecord("Exception")
    ELSE LET blocks == SelectBlocks(frag)
         IN  IF blocks = <<>> THEN ErrorRecord("Invalid HTML")
             ELSE LET result == ParseBlocks(<<>>, blocks, 1)
                  IN  IF result = <<>> THEN ErrorRecord("JSON Mapping")
                      ELSE Dict(result)

-----------------------------------------------------------------------------
(* beautify_json.beautify *)

Date(y, m, d) == [y |-> y, m |-> m, d |-> d]

\* the proleptic Gregorian calendar of datetime.date
IsLeap(y) == y % 4 = 0 /\ (y % 100 # 0 \/ y % 400 = 0)

DaysInMonth(y, m) ==
    IF m = 2 THEN (IF IsLeap(y) THEN 29 ELSE 28)
    ELSE IF m \in {4, 6, 9, 11} THEN 30 ELSE 31

RECURSIVE DaysBeforeMonth(_, _)
DaysBeforeMonth(y, m) ==
    IF m = 1 THEN 0 ELSE DaysBeforeMonth(y, m - 1) + DaysInMonth(y, m - 1)

DaysBeforeYear(y) ==
    365 * (y - 1) + ((y - 1) \div 4) - ((y - 1) \div 100) + ((y - 1) \div 400)

\* date.toordinal()
Ordinal(dt) == DaysBeforeYear(dt.y) + DaysBeforeMonth(dt.y, dt.m) + dt.d

\* (a - b).days with the operands exchanged
DaysBetweenSwapped(a, b) == Ordinal(b) - Ordinal(a)

\* (a - b).days
DaysBetween(a, b) == Ordinal(a) - Ordinal(b)

ValidDate(y, m, d) == m \in 1..12 /\ d >= 1 /\ d <= DaysInMonth(y, m)

MonthAbbrLower == <<"jan", "feb", "mar", "apr", "may", "jun", "jul", "aug",
                    "sep", "oct", "nov", "dec">>
MonthFullLower == <<"january", "february", "march", "april", "may", "june",
                    "july", "august", "september", "october", "november",
                    "december">>

Suffixes == {"st", "nd", "rd", "th"}

\* the regex (\w+),\s+(\d{1,2})(st|nd|rd|th)\s+(\w+) tried at start i
TokenMatchAt(s, i) ==
    LET e1 == WordRunEnd(s, i)
        e2 == SpaceRunEnd(s, e1 + 2)
        e3 == DigitRunEnd(s, e2 + 1)
        e4 == SpaceRunEnd(s, e3 + 3)
        e5 == WordRunEnd(s, e4 + 1)
    IN  IF /\ e1 >= i
           /\ e1 < Len(s) /\ Ch(s, e1 + 1) = ","
           /\ e2 >= e1 + 2
           /\ e3 - e2 \in {1, 2}
           /\ e3 + 2 <= Len(s) /\ SubSeq(s, e3 + 1, e3 + 2) \in Suffixes
           /\ e4 >= e3 + 3
           /\ e5 >= e4 + 1
        THEN [ok |-> TRUE,
              weekday_full |-> SubSeq(s, i, e1),
              day |-> SubSeq(s, e2 + 1, e3),
              suffix |-> SubSeq(s, e3 + 1, e3 + 2),
              month_str |-> SubSeq(s, e4 + 1, e5)]
        ELSE [ok |-> FALSE]

\* re.search: the match at the leftmost start
TokenSearch(s) ==
    The({ IF starts = {} THEN [ok |-> FALSE]
          ELSE TokenMatchAt(s, MinOf(starts)) :
          starts \in {{i \in 1..Len(s) : TokenMatchAt(s, i).ok}} })

\* index of the month a strptime directive accepts for word (names are
\* matched ignoring case), or 0
MonthIndex(word, names) ==
    LET idx == {i \in 1..12 : names[i] = MapLower(word)}
    IN  IF idx = {} THEN 0 ELSE CHOOSE i \in idx : TRUE

\* Strptime without the check of the day against the month's length
StrptimeAnyDay(day, month_norm, year, names) ==
    LET d == ParseInt(day)
        m == MonthIndex(month_norm, names)
    IN  IF d >= 1 /\ d <= 31 /\ m # 0
        THEN [ok |-> TRUE, date |-> Date(year, m, d)]
        ELSE [ok |-> FALSE]

\* datetime.strptime(f"{day} {month_norm} {year}", "%d %b %Y" or "%d %B %Y"):
\* ok = FALSE stands for ValueError
Strptime(day, month_norm, year, names) ==
    LET d == ParseInt(day)
        m == MonthIndex(month_norm, names)
    IN  IF d >= 1 /\ d <= 31 /\ m # 0 /\ ValidDate(year, m, d)
        THEN [ok |-> TRUE, date |-> Date(year, m, d)]
        ELSE [ok |-> FALSE]

\* the loop "for fmt in (...)": the first format that parses
ParseTarget(day, month_norm, year) ==
    LET b == Strptime(day, month_norm, year, MonthAbbrLower)
    IN  IF b.ok THEN b ELSE Strptime(day, month_norm, year, MonthFullLower)

RolloverDays == 30

Raised == [raised |-> TRUE]
Returned(v) == [raised |-> FALSE, v |-> v]

\* RelativeString with the word for offset 0 in lower case
RelativeStringLowerToday(m, diff) ==
    IF diff = 0 THEN Str("today")
    ELSE IF diff = 1 THEN Str("Tomorrow")
    ELSE Str(IntStr(diff) \o " Days (" \o Prefix(m.weekday_full, 3) \o " "
             \o m.day \o m.suffix \o ")")

\* lines 93-99: the display string for the offset diff
RelativeString(m, diff) ==
    IF diff = 0 THEN Str("Today")
    ELSE IF diff = 1 THEN Str("Tomorrow")
    ELSE Str(IntStr(diff) \o " Days (" \o Prefix(m.weekday_full, 3) \o " "
             \o m.day \o m.suffix \o ")")

\* lines 86-99: year rollover, then the offset; target_date.replace raises
\* ValueError when the day does not exist in the next year
ProcessTarget(m, target_date, today) ==
    IF DaysBetween(target_date, today) < -RolloverDays
    THEN IF ~ValidDate(today.y + 1, target_date.m, target_date.d)
         THEN Raised
         ELSE Returned(RelativeString(m,
                DaysBetween(Date(today.y + 1, target_date.m, target_date.d),
                            today)))
    ELSE Returned(RelativeString(m, DaysBetween(target_date, today)))

\* lines 71-84: the date of the match in the current year, if it parses
ProcessMatch(value, m, today) ==
    The({ IF ~t0.ok THEN Returned(value)
          ELSE ProcessTarget(m, t0.date, today) :
          t0 \in {ParseTarget(m.day, Title(m.month_str), today.y)} })

\* lines 60-69: "today", then the token search on the stripped text
ProcessText(value, text, today) ==
    IF MapLower(text) = "today" THEN Returned(Str("Today"))
    ELSE The({ IF ~m.ok THEN Returned(value)
               ELSE ProcessMatch(value, m, today) :
               m \in {TokenSearch(text)} })

\* the body of the loop for one value: the value stored in output, or the
\* exception that leaves the loop
ProcessValue(value, today) ==
    IF value.t # "str" THEN Returned(value)
    ELSE The({ ProcessText(value, text, today) : text \in {Strip(value.s)} })

\* "for key, value in input_data.items()" from entry i on: the output built,
\* or the exception
RECURSIVE BeautifyLoop(_, _, _, _)
BeautifyLoop(items, i, out, today) ==
    IF i > Len(items) THEN [raised |-> FALSE, output |-> out]
    ELSE The({ IF r.raised THEN [raised |-> TRUE, output |-> out]
               ELSE BeautifyLoop(items, i + 1,
                                 DictSet(out, items[i].k, r.v), today) :
               r \in {ProcessValue(items[i].v, today)} })

\* beautify whose exception handler returns the output built so far
beautifyPartial(data, today) ==
    IF data.t # "dict" THEN data
    ELSE Dict(BeautifyLoop(data.items, 1, <<>>, today).output)

beautify(data, today) ==
    IF data.t # "dict" THEN data
    ELSE The({ IF r.raised THEN data ELSE Dict(r.output) :
               r \in {BeautifyLoop(data.items, 1, <<>>, today)} })

-----------------------------------------------------------------------------
(* Bounds of the model *)

\* day numbers 0..MaxDay are tried in raw phrases
MaxDay == 33

\* the current date is drawn from the years FirstYear..LastYear
FirstYear == 2023
LastYear == 2024

Months == <<"January", "February", "March", "April", "May", "June", "July",
            "August", "September", "October", "November", "December">>

MonthNames == {Months[i] : i \in 1..12}

\* state of the variables a specification does not use
IdleScrape ==
    /\ step = 0
    /\ pwRunning = FALSE
    /\ browserOpen = FALSE
    /\ contextOpen = FALSE
    /\ acquired = FALSE
    /\ closeCalls = <<>>
    /\ failedAt = <<>>
    /\ stepsRun = <<>>

IdleMain ==
    /\ html_or_error = None
    /\ parsed = None
    /\ shown = None
    /\ calls = <<>>

IdleFormat == raw = "" /\ formatted = ""

IdleExtract == html = Fragment(FALSE, <<>>) /\ extracted = None

IdleBeautify ==
    /\ now = Date(FirstYear, 1, 1)
    /\ input_data = None
    /\ output = None

IdleOutput ==
    /\ outModule = "unloaded"
    /\ driver = "untried"
    /\ EPD_AVAILABLE = FALSE
    /\ clock = 1
    /\ last_refresh_time = 0
    /\ last_full_refresh = 0
    /\ partial_count = 0
    /\ terminal = <<>>
    /\ panel = None
    /\ showOutcome = "none"

-----------------------------------------------------------------------------
(* Specification of format_collection_date alone: SpecFormat *)

\* phrases of the site's grammar, with day numbers in and out of range
RegularPhrases ==
    {w \o " " \o IntStr(d) \o " " \o mo :
        w \in Weekdays, d \in 0..MaxDay, mo \in MonthNames}

\* phrases off the grammar in one or more places
IrregularPhrases ==
    {pre \o w \o s1 \o d \o s2 \o mo \o post :
        pre \in {"", "x"},
        w \in {"Friday", "Fri", "friday"},
        s1 \in {" ", "  ", ""},
        d \in {"7", "07", "123", "", "45"},
        s2 \in {" ", "\t"},
        mo \in {"March", "Ma", "Smarch", "march_1", ""},
        post \in {"", "\n", " ", "!"}}

RawPhrases == RegularPhrases \cup IrregularPhrases \cup {"", "Today"}

InitFormat ==
    /\ pc = "format_call"
    /\ raw \in RawPhrases
    /\ formatted = ""
    /\ IdleExtract
    /\ IdleScrape /\ IdleMain /\ IdleBeautify
    /\ IdleOutput

FormatCall ==
    /\ pc = "format_call"
    /\ formatted' = format_collection_date(raw)
    /\ pc' = "format_done"
    /\ UNCHANGED <<scrapeVars, html_or_error, parsed, extracted, shown, calls,
                   now, raw, html, input_data, output>>
    /\ UNCHANGED outputVars

NextFormat == FormatCall

SpecFormat == InitFormat /\ [][NextFormat]_vars

-----------------------------------------------------------------------------
(* Specification of parse_to_json alone: SpecExtract *)

\* fragments hold at most MaxBlocks top-level elements
MaxBlocks == 2

HdrBlack == El(<<"rubbish_date_container_left", "rubbish_collection_difs_black">>,
               "Your next rubbish collection day is")
HdrGreen == El(<<"rubbish_date_container_left", "rubbish_collection_difs_green">>,
               "Your next recycling collection day is")
HdrPurple == El(<<"rubbish_date_container_left", "rubbish_collection_difs_purple">>,
                "Your next weekly food waste collection day is")
\* a marker of the same family that the mapping does not know
HdrRed == El(<<"rubbish_date_container_left", "rubbish_collection_difs_red">>,
             "Your next garden waste collection day is")
HdrBoth == El(<<"rubbish_collection_difs_black", "rubbish_collection_difs_green">>, "")
DateFri == El(<<"rubbish_date_container_left_datetext">>, "Friday 23 January")
DateSat == El(<<"rubbish_date_container_left_datetext">>, "  Saturday 17 January\n")

Wrap(els) == Node(<<"rubbish_date_wrap">>, els)

SampleNodes ==
    { Wrap(<<HdrBlack, DateFri>>),
      Wrap(<<HdrGreen, DateSat>>),
      Wrap(<<HdrPurple, DateFri>>),
      Wrap(<<HdrRed, DateFri>>),            \* unknown marker
      Wrap(<<HdrBlack>>),                   \* marker, no date element
      Wrap(<<DateSat>>),                    \* date element, no marker
      Wrap(<<HdrRed, HdrGreen, DateSat>>),  \* unknown marker first
      Wrap(<<HdrBoth, DateFri>>),           \* two markers on one element
      Wrap(<<>>),
      Node(<<"other_wrap">>, <<HdrBlack, DateFri>>) }  \* not a block

NodeSeqs(n) == UNION {[1..k -> SampleNodes] : k \in 0..n}

Fragments == {Fragment(r, ns) : r \in BOOLEAN, ns \in NodeSeqs(MaxBlocks)}

InitExtract ==
    /\ pc = "extract_call"
    /\ html \in Fragments
    /\ extracted = None
    /\ IdleScrape /\ IdleMain /\ IdleFormat /\ IdleBeautify
    /\ IdleOutput

ExtractCall ==
    /\ pc = "extract_call"
    /\ extracted' = parse_to_json(html)
    /\ pc' = "extract_done"
    /\ UNCHANGED <<scrapeVars, html_or_error, parsed, shown, calls,
                   now, raw, formatted, html, input_data, output>>
    /\ UNCHANGED outputVars

NextExtract == ExtractCall

SpecExtract == InitExtract /\ [][NextExtract]_vars

-----------------------------------------------------------------------------
(* Claims about parse_to_json, under SpecExtract *)

Categories == {"Rubbish", "Recycling", "Food"}

KnownMarker == [Rubbish |-> "rubbish_collection_difs_black",
                Recycling |-> "rubbish_collection_difs_green",
                Food |-> "rubbish_collection_difs_purple"]

ClassSet(e) == {e.classes[i] : i \in 1..Len(e.classes)}

BlockSet(frag) ==
    {i \in 1..Len(frag.nodes) : "rubbish_date_wrap" \in ClassSet(frag.nodes[i])}

\* the categories whose marker some element of the block carries
MarkersIn(node) ==
    {c \in Categories :
        \E i \in 1..Len(node.els) : KnownMarker[c] \in ClassSet(node.els[i])}

\* the categories a block yields: those whose marker is on the block's first
\* element of the marker family, when the block also has a date element
YieldedBy(node) ==
    LET family == {i \in 1..Len(node.els) :
                     \E c \in ClassSet(node.els[i]) :
                         Contains(c, "rubbish_collection_difs_")}
        dated == \E i \in 1..Len(node.els) :
                     "rubbish_date_container_left_datetext" \in ClassSet(node.els[i])
    IN  IF family = {} \/ ~dated THEN {}
        ELSE LET h == node.els[CHOOSE i \in family : \A j \in family : i <= j]
             IN  {c \in Categories : \E k \in ClassSet(h) : Contains(k, KnownMarker[c])}

IsCategoryRecord(r, keys) ==
    /\ r.t = "dict"
    /\ Keys(r) = keys
    /\ Len(r.items) = Cardinality(keys)
    /\ keys # {} /\ keys \subseteq Categories
    /\ \A i \in 1..Len(r.items) : r.items[i].v.t = "str"

\* C5 as stated, for the fragments the parser accepts: Invalid HTML exactly
\* for zero blocks, JSON Mapping exactly when there are blocks and none
\* carries a known marker, otherwise a record of the categories found
C5_Original_Classification ==
    (pc = "extract_done" /\ ~html.rejected) =>
        LET blocks == BlockSet(html)
            marked == UNION {MarkersIn(html.nodes[i]) : i \in blocks}
        IN  /\ (extracted = ErrorRecord("Invalid HTML")) <=> (blocks = {})
            /\ (extracted = ErrorRecord("JSON Mapping")) <=>
                   (blocks # {} /\ marked = {})
            /\ (blocks # {} /\ marked # {}) =>
                   /\ extracted.t = "dict"
                   /\ Keys(extracted) # {}
                   /\ Keys(extracted) \subseteq Categories

\* C5 amended: for the fragments the parser accepts, Invalid HTML exactly for
\* zero blocks; JSON Mapping exactly when there are blocks and none yields a
\* category (a block yields the categories whose marker is on its first
\* element of the marker family, and only if it has a date element);
\* otherwise a record whose keys are exactly the yielded categories
C5_Classification ==
    (pc = "extract_done" /\ ~html.rejected) =>
        LET blocks == BlockSet(html)
            found == UNION {YieldedBy(html.nodes[i]) : i \in blocks}
        IN  /\ (extracted = ErrorRecord("Invalid HTML")) <=> (blocks = {})
            /\ (extracted = ErrorRecord("JSON Mapping")) <=>
                   (blocks # {} /\ found = {})
            /\ (blocks # {} /\ found # {}) => IsCategoryRecord(extracted, found)

\* C5 witness: a fragment with a known block, an unknown-marker block skipped,
\* and a category missing, parsed into a record
C5_Witness ==
    /\ pc = "extract_done"
    /\ html = Fragment(FALSE, <<Wrap(<<HdrRed, DateFri>>), Wrap(<<HdrGreen, DateSat>>)>>)
    /\ extracted = Dict(<<Entry("Recycling", Str("Saturday, 17th JAN"))>>)

-----------------------------------------------------------------------------
(* Specification of beautify alone: SpecBeautify *)

\* mappings passed to beautify hold at most MaxEntries entries
MaxEntries == 2

\* current dates: around the year's ends, the leap day, and mid-year
NowDates ==
    {Date(y, md[1], md[2]) :
        y \in FirstYear..LastYear,
        md \in {<<1, 1>>, <<1, 5>>, <<2, 28>>, <<3, 1>>, <<4, 15>>, <<12, 20>>,
                <<12, 31>>}}
    \cup {Date(y, 2, 29) : y \in {x \in FirstYear..LastYear : IsLeap(x)}}

\* strings of the token shape, well formed or not
TokenStrings ==
    {w \o ", " \o d \o sf \o " " \o mo :
        w \in {"Tuesday", "Someday"},
        d \in {"1", "06", "29", "31", "0", "45"},
        sf \in {"th"},
        mo \in {"JAN", "FEB", "APR", "DEC", "January", "Foo"}}

OtherStrings ==
    {"today", " Today ", "TODAY", "Not today", "Tomorrow", "5 Days (Tue 6th)",
     "", "Collected Tuesday, 6th JAN (approx)", "a, 1st b Tuesday, 6th JAN",
     "Tuesday,6th JAN", "Tuesday, 6 JAN", "Tuesday, 123rd JAN",
     "  Friday, 5th jan\n", "Due 29th FEB", "Invalid HTML", "Tu, 2nd MAR",
     "Tuesday, 31st APR", "Tuesday, 1st Foo", "Tuesday, 1st JAN",
     "Wednesday, 3rd february"}

FirstValues ==
    {Str(x) : x \in TokenStrings \cup OtherStrings} \cup {IntObj(7), None}

\* values of the entries after the first
LaterValues ==
    {Str("Tuesday, 6th JAN"), Str("Thursday, 29th FEB"), Str("today"),
     IntObj(7)}

CategoryKeys == <<"Rubbish", "Recycling", "Food", "Garden", "Glass">>

Mappings ==
    {Dict(<<>>)} \cup
    {Dict([i \in 1..n |-> Entry(CategoryKeys[i], IF i = 1 THEN v ELSE rest[i])]) :
        n \in 1..MaxEntries, v \in FirstValues,
        rest \in [1..MaxEntries -> LaterValues]}

BeautifyInputs ==
    Mappings \cup {Str("Tuesday, 6th JAN"), Str("today"), IntObj(7), None}

InitBeautify ==
    /\ pc = "beautify_call"
    /\ now \in NowDates
    /\ input_data \in BeautifyInputs
    /\ output = None
    /\ IdleScrape /\ IdleMain /\ IdleFormat /\ IdleExtract
    /\ IdleOutput

BeautifyCall ==
    /\ pc = "beautify_call"
    /\ output' = beautify(input_data, now)
    /\ pc' = "beautify_done"
    /\ UNCHANGED <<scrapeVars, html_or_error, parsed, extracted, shown, calls,
                   now, raw, formatted, html, input_data>>
    /\ UNCHANGED outputVars

NextBeautify == BeautifyCall

SpecBeautify == InitBeautify /\ [][NextBeautify]_vars

-----------------------------------------------------------------------------
(* website_scraper.scrape_url_get_html and main.main: Spec *)

\* the Playwright calls of scrape_url_get_html, in program order
Steps == <<"sync_playwright", "launch", "new_context", "new_page", "goto",
           "fill", "click", "element_handle", "wait_for_function",
           "select_option", "wait_for_selector", "inner_html",
           "context.close", "browser.close">>

\* the calls that wait with a timeout and raise PlaywrightTimeoutError when
\* it elapses: the three waits given an explicit timeout and the calls that
\* wait with Playwright's default one
TimedSteps == {"launch", "goto", "fill", "click", "element_handle",
               "wait_for_function", "select_option", "wait_for_selector",
               "inner_html"}

\* what a call can do: return, raise PlaywrightTimeoutError, raise another
\* exception
Outcomes(name) ==
    IF name \in TimedSteps THEN {"ok", "timeout", "error"} ELSE {"ok", "error"}

StepIndex(name) == CHOOSE i \in 1..Len(Steps) : Steps[i] = name

Html(frag) == [t |-> "html", frag |-> frag]

\* the except clauses with every exception reported as Unknown
ExceptResultAllUnknown(outcome) == ErrorRecord("Unknown")

\* lines 81-87: the value returned by the except clause that catches
ExceptResult(outcome) ==
    IF outcome = "timeout" THEN ErrorRecord("Browser") ELSE ErrorRecord("Unknown")

\* fragments the site serves in the pipeline runs
MainFragments ==
    { Fragment(FALSE, <<Wrap(<<HdrBlack, DateFri>>), Wrap(<<HdrGreen, DateSat>>),
                        Wrap(<<HdrPurple, DateFri>>)>>),
      Fragment(FALSE, <<>>),
      Fragment(FALSE, <<Wrap(<<HdrRed, DateFri>>)>>),
      Fragment(FALSE, <<Wrap(<<HdrBlack>>)>>),
      Fragment(TRUE, <<Wrap(<<HdrBlack, DateFri>>)>>) }

MainDates == {Date(FirstYear, 12, 20), Date(LastYear, 1, 17)}

mainVars == <<html_or_error, parsed, extracted, shown>>
pureVars == <<raw, formatted, input_data, output>>

Init ==
    /\ pc = "main"
    /\ now \in MainDates
    /\ IdleScrape /\ IdleMain /\ IdleFormat /\ IdleExtract
    /\ input_data = None /\ output = None
    /\ IdleOutput

\* main line 60: the call of scrape_url_get_html
MainScrape ==
    /\ pc = "main"
    /\ calls' = Append(calls, "scrape_url_get_html")
    /\ pc' = "scrape"
    /\ step' = 1
    /\ UNCHANGED <<pwRunning, browserOpen, contextOpen, acquired, closeCalls,
                   failedAt, stepsRun, mainVars, now, html, pureVars>>
    /\ UNCHANGED outputVars

\* a Playwright call that is made again after it raised
PlaywrightCallRetry(name, pw, b, c, a, cl, h) ==
    /\ pc = "scrape"
    /\ step = StepIndex(name)
    /\ stepsRun' = Append(stepsRun, name)
    /\ \E outcome \in Outcomes(name) :
         IF outcome = "ok"
         THEN /\ pwRunning' = pw /\ browserOpen' = b /\ contextOpen' = c
              /\ acquired' = a /\ closeCalls' = cl /\ html' = h
              /\ step' = step + 1
              /\ pc' = "scrape"
              /\ UNCHANGED failedAt
         ELSE /\ failedAt' = <<name, outcome>>
              /\ pc' = IF failedAt = <<>> THEN "scrape" ELSE "scrape_raise"
              /\ UNCHANGED <<pwRunning, browserOpen, contextOpen, acquired,
                             closeCalls, html, step>>
    /\ UNCHANGED <<mainVars, calls, now, pureVars>>
    /\ UNCHANGED outputVars

\* one Playwright call: it returns and the call after it is next, or it
\* raises and control leaves the with block
PlaywrightCall(name, pw, b, c, a, cl, h) ==
    /\ pc = "scrape"
    /\ step = StepIndex(name)
    /\ stepsRun' = Append(stepsRun, name)
    /\ \E outcome \in Outcomes(name) :
         IF outcome = "ok"
         THEN /\ pwRunning' = pw /\ browserOpen' = b /\ contextOpen' = c
              /\ acquired' = a /\ closeCalls' = cl /\ html' = h
              /\ step' = step + 1
              /\ pc' = "scrape"
              /\ UNCHANGED failedAt
         ELSE /\ failedAt' = <<name, outcome>>
              /\ pc' = "scrape_raise"
              /\ UNCHANGED <<pwRunning, browserOpen, contextOpen, acquired,
                             closeCalls, html, step>>
    /\ UNCHANGED <<mainVars, calls, now, pureVars>>
    /\ UNCHANGED outputVars

Same(name) ==
    PlaywrightCall(name, pwRunning, browserOpen, contextOpen, acquired,
                   closeCalls, html)

\* line 49: with sync_playwright() as p
EnterPlaywright ==
    PlaywrightCall("sync_playwright", TRUE, browserOpen, contextOpen, acquired,
                   closeCalls, html)
\* lines 50-55
Launch ==
    PlaywrightCall("launch", pwRunning, TRUE, contextOpen, acquired,
                   closeCalls, html)
\* line 56: from here on the call holds a browser and a page context
NewContext ==
    PlaywrightCall("new_context", pwRunning, browserOpen, TRUE, TRUE,
                   closeCalls, html)
\* line 57
NewPage == Same("new_page")
\* line 59, timeout 60000
Goto == Same("goto")
\* line 61
Fill == Same("fill")
\* line 62
Click == Same("click")
\* lines 64-65
ElementHandle == Same("element_handle")
\* line 67, timeout 20000
WaitForFunction == Same("wait_for_function")
\* line 69
SelectOption == Same("select_option")
\* lines 71-72, timeout 20000
WaitForSelector == Same("wait_for_selector")
\* line 74: the markup the site serves
InnerHtml ==
    \E frag \in MainFragments :
        PlaywrightCall("inner_html", pwRunning, browserOpen, contextOpen,
                       acquired, closeCalls, frag)
\* line 76
ContextClose ==
    PlaywrightCall("context.close", pwRunning, browserOpen, FALSE, acquired,
                   Append(closeCalls, "context.close"), html)
\* line 77
BrowserClose ==
    PlaywrightCall("browser.close", pwRunning, FALSE, contextOpen, acquired,
                   Append(closeCalls, "browser.close"), html)

\* line 79: return html, leaving the with block
ScrapeReturnHtml ==
    /\ pc = "scrape"
    /\ step = Len(Steps) + 1
    /\ pwRunning' = FALSE
    /\ html_or_error' = Html(html)
    /\ pc' = "main_scraped"
    /\ UNCHANGED <<step, browserOpen, contextOpen, acquired, closeCalls,
                   failedAt, stepsRun, parsed, extracted, shown, calls, now,
                   html, pureVars>>
    /\ UNCHANGED outputVars

\* an exception leaves the with block: the context manager stops Playwright;
\* neither context.close() nor browser.close() is called on this path
WithExitOnRaise ==
    /\ pc = "scrape_raise"
    /\ pwRunning' = FALSE
    /\ pc' = "scrape_except"
    /\ UNCHANGED <<step, browserOpen, contextOpen, acquired, closeCalls,
                   failedAt, stepsRun, mainVars, calls, now, html, pureVars>>
    /\ UNCHANGED outputVars

\* lines 81-87: the except clauses
ScrapeExcept ==
    /\ pc = "scrape_except"
    /\ html_or_error' = ExceptResult(failedAt[2])
    /\ pc' = "main_scraped"
    /\ UNCHANGED <<scrapeVars, parsed, extracted, shown, calls, now, html,
                   pureVars>>
    /\ UNCHANGED outputVars

\* main line 73 with a wrong variable passed to show_result
MainShowErrorWrongVar ==
    /\ pc = "main_scraped"
    /\ html_or_error.t = "dict"
    /\ calls' = Append(calls, "show_result")
    /\ shown' = parsed
    /\ pc' = "main_done"
    /\ UNCHANGED <<scrapeVars, html_or_error, parsed, extracted, now, html,
                   pureVars>>
    /\ UNCHANGED outputVars

\* main lines 67-74: the scraper returned a dict: show it and return
MainShowError ==
    /\ pc = "main_scraped"
    /\ html_or_error.t = "dict"
    /\ calls' = Append(calls, "show_result")
    /\ shown' = html_or_error
    /\ pc' = "main_done"
    /\ UNCHANGED <<scrapeVars, html_or_error, parsed, extracted, now, html,
                   pureVars>>
    /\ UNCHANGED outputVars

\* main line 78
MainParse ==
    /\ pc = "main_scraped"
    /\ html_or_error.t # "dict"
    /\ calls' = Append(calls, "parse_to_json")
    /\ parsed' = parse_to_json(html_or_error.frag)
    /\ extracted' = parse_to_json(html_or_error.frag)
    /\ pc' = "main_parsed"
    /\ UNCHANGED <<scrapeVars, html_or_error, shown, now, html, pureVars>>
    /\ UNCHANGED outputVars

\* main line 82: called whatever parse_to_json returned
MainBeautify ==
    /\ pc = "main_parsed"
    /\ calls' = Append(calls, "beautify")
    /\ parsed' = beautify(parsed, now)
    /\ pc' = "main_beautified"
    /\ UNCHANGED <<scrapeVars, html_or_error, extracted, shown, now, html,
                   pureVars>>
    /\ UNCHANGED outputVars

\* main line 86
MainShow ==
    /\ pc = "main_beautified"
    /\ calls' = Append(calls, "show_result")
    /\ shown' = parsed
    /\ pc' = "main_done"
    /\ UNCHANGED <<scrapeVars, html_or_error, parsed, extracted, now, html,
                   pureVars>>
    /\ UNCHANGED outputVars

Next ==
    \/ MainScrape
    \/ EnterPlaywright \/ Launch \/ NewContext \/ NewPage \/ Goto \/ Fill
    \/ Click \/ ElementHandle \/ WaitForFunction \/ SelectOption
    \/ WaitForSelector \/ InnerHtml \/ ContextClose \/ BrowserClose
    \/ ScrapeReturnHtml \/ WithExitOnRaise \/ ScrapeExcept
    \/ MainShowError \/ MainParse \/ MainBeautify \/ MainShow

Spec == Init /\ [][Next]_vars

-----------------------------------------------------------------------------
(* Claims about the pipeline and the scraper, under Spec *)

IsErrorRecord(r) == r.t = "dict" /\ "Error" \in Keys(r)

\* C1 as stated: after an error from the Scraper or from the Extractor every
\* later stage is skipped and show_result receives that record
C1_Original_ErrorSkipsDownstream ==
    pc = "main_done" =>
        /\ IsErrorRecord(html_or_error) =>
             /\ calls = <<"scrape_url_get_html", "show_result">>
             /\ shown = html_or_error
        /\ IsErrorRecord(extracted) =>
             /\ calls = <<"scrape_url_get_html", "parse_to_json", "show_result">>
             /\ shown = extracted

\* C1 amended: after a Scraper error neither the Extractor nor the
\* Normalizer is invoked and show_result receives that record; after an
\* Extractor error the Normalizer is still invoked, returns the record with
\* its content unchanged, and show_result receives a record equal to it
C1_ErrorReachesConsumer ==
    pc = "main_done" =>
        /\ IsErrorRecord(html_or_error) =>
             /\ calls = <<"scrape_url_get_html", "show_result">>
             /\ shown = html_or_error
        /\ IsErrorRecord(extracted) =>
             /\ calls = <<"scrape_url_get_html", "parse_to_json", "beautify",
                          "show_result">>
             /\ shown = extracted

\* C1 witness: a run that ended on a Scraper error, and one that ended on an
\* Extractor error
C1_Witness ==
    /\ pc = "main_done"
    /\ \/ shown = ErrorRecord("Browser") /\ failedAt = <<"goto", "timeout">>
       \/ shown = ErrorRecord("Invalid HTML") /\ extracted = shown

ErrorCodes == {"Browser", "Unknown", "Invalid HTML", "JSON Mapping"}

\* the fragment parse_to_json was given makes the parser raise
ExtractorRaised ==
    /\ pc \in {"main_parsed", "main_beautified", "main_done"}
    /\ html_or_error.t = "html" /\ html_or_error.frag.rejected

\* C2 as stated: every error record a stage returns or the consumer receives
\* is {"Error": code} with one of the four codes, and an exception inside the
\* Extractor yields Unknown
C2_Original_ErrorCodes ==
    /\ \A r \in {html_or_error, extracted, shown} :
         IsErrorRecord(r) => \E code \in ErrorCodes : r = ErrorRecord(code)
    /\ ExtractorRaised => extracted = ErrorRecord("Unknown")

\* C2 amended: every such error record is {"Error": code} with code one of
\* Browser, Unknown, Invalid HTML, JSON Mapping, Exception; an exception
\* inside the Extractor yields the code Exception
C2_ErrorCodes ==
    /\ \A r \in {html_or_error, extracted, shown} :
         IsErrorRecord(r) =>
             \E code \in ErrorCodes \cup {"Exception"} : r = ErrorRecord(code)
    /\ ExtractorRaised => extracted = ErrorRecord("Exception")

\* C2 witness: the consumer received the record of an Extractor exception
C2_Witness ==
    /\ pc = "main_done"
    /\ ExtractorRaised
    /\ shown = ErrorRecord("Exception")

ScrapeReturned ==
    pc \in {"main_scraped", "main_parsed", "main_beautified", "main_done"}

\* C3: once the call holds a browser and a page context, context.close and
\* browser.close have been executed when it returns
C3_SessionReleasedOnReturn ==
    (ScrapeReturned /\ acquired) =>
        /\ closeCalls = <<"context.close", "browser.close">>
        /\ ~contextOpen /\ ~browserOpen

ExplicitWaits == {"goto", "wait_for_function", "wait_for_selector"}

\* the calls of the step sequence, from the navigation to the extraction
SequenceSteps == {"goto", "fill", "click", "element_handle", "wait_for_function",
                  "select_option", "wait_for_selector", "inner_html"}

\* C4 as stated, for the calls of the step sequence: Browser exactly when one
\* of the three explicit waits timed out, Unknown for every other exception,
\* timeouts of the other calls included
C4_Original_BrowserOnlyForExplicitWaits ==
    (ScrapeReturned /\ failedAt # <<>> /\ failedAt[1] \in SequenceSteps) =>
        IF failedAt[2] = "timeout" /\ failedAt[1] \in ExplicitWaits
        THEN html_or_error = ErrorRecord("Browser")
        ELSE html_or_error = ErrorRecord("Unknown")

\* C4 amended: the call always returns; it returns Browser exactly when a
\* Playwright call raised a timeout (one of the three explicit waits, or
\* launch, fill, click, element_handle, select_option, inner_html on their
\* default timeout), Unknown exactly when a call raised any other exception,
\* and the markup when no call raised
C4_BrowserForEveryTimeout ==
    /\ pc \in {"scrape_raise", "scrape_except"} => ENABLED Next
    /\ ScrapeReturned =>
         /\ (html_or_error = ErrorRecord("Browser")) <=>
                (failedAt # <<>> /\ failedAt[2] = "timeout")
         /\ (html_or_error = ErrorRecord("Unknown")) <=>
                (failedAt # <<>> /\ failedAt[2] = "error")
         /\ (html_or_error.t = "html") <=> (failedAt = <<>>)

\* C4 witness: a timeout of the postcode fill returned Browser
C4_Witness ==
    /\ ScrapeReturned
    /\ failedAt = <<"fill", "timeout">>
    /\ html_or_error = ErrorRecord("Browser")

-----------------------------------------------------------------------------
(* Claims about format_collection_date, under SpecFormat *)

MonthAbbr == <<"JAN", "FEB", "MAR", "APR", "MAY", "JUN", "JUL", "AUG", "SEP",
               "OCT", "NOV", "DEC">>

\* the ordinal suffix of English, as a table
EnglishSuffix(d) ==
    IF d \in {1, 21, 31} THEN "st"
    ELSE IF d \in {2, 22} THEN "nd"
    ELSE IF d \in {3, 23} THEN "rd"
    ELSE "th"

\* the phrase "<Weekday> <Day> <Month>" of the site's grammar
GrammarPhrase(w, d, i) == w \o " " \o IntStr(d) \o " " \o Months[i]

InGrammar(s) ==
    \E w \in Weekdays : StartsWith(s, w) /\
        \E d \in 1..31, i \in 1..12 : s = GrammarPhrase(w, d, i)

AllSpace(s, a, b) == \A k \in a..b : IsSpace(Ch(s, k))
AllDigit(s, a, b) == \A k \in a..b : IsDigit(Ch(s, k))
AllWord(s, a, b) == \A k \in a..b : IsWord(Ch(s, k))

\* s is a weekday name, white space, one or two digits, white space and a
\* word of letters, digits and underscores, with at most one final newline
InLooseShape(s) ==
    \E w \in Weekdays : StartsWith(s, w) /\
        \E n \in {Len(s), Len(s) - 1} :
            /\ n >= Len(w)
            /\ (n = Len(s) \/ Ch(s, Len(s)) = "\n")
            /\ \E a \in (Len(w) + 1)..n : AllSpace(s, Len(w) + 1, a) /\
                 \E b \in {a + 1, a + 2} : b <= n /\ AllDigit(s, a + 1, b) /\
                   \E c \in (b + 1)..(n - 1) : AllSpace(s, b + 1, c) /\
                       AllWord(s, c + 1, n)

\* C6: every phrase "<Weekday> <Day> <Month>" with Day in 1..31 and Month an
\* English month name is returned as "<Weekday>, <Day><Suffix> <MON>", with
\* the English ordinal suffix and the upper-cased 3-letter month
C6_FormatsGrammarPhrases ==
    pc = "format_done" =>
        \A w \in Weekdays : StartsWith(raw, w) =>
            \A d \in 1..31, i \in 1..12 :
                raw = GrammarPhrase(w, d, i) =>
                    formatted = w \o ", " \o IntStr(d) \o EnglishSuffix(d)
                                \o " " \o MonthAbbr[i]

\* C6 witness: the spec's example and a day of the 11..13 exception
C6_Witness ==
    /\ pc = "format_done"
    /\ \/ raw = "Saturday 17 January" /\ formatted = "Saturday, 17th JAN"
       \/ raw = "Monday 12 January" /\ formatted = "Monday, 12th JAN"

\* C7 as stated: a phrase outside the grammar (Day 1..31, Month an English
\* month name) is returned unmodified
C7_Original_StrictPassthrough ==
    (pc = "format_done" /\ ~InGrammar(raw)) => formatted = raw

\* C7 amended: a phrase that is not a weekday name, white space, one or two
\* digits, white space and one word (the day's range and the month's name are
\* not looked at) is returned unmodified
C7_LoosePassthrough ==
    (pc = "format_done" /\ ~InLooseShape(raw)) => formatted = raw

\* C7 witness: a near miss of the grammar came back unmodified
C7_Witness ==
    /\ pc = "format_done"
    /\ raw \in {"Fri 7 March", "Friday 123 March", "Friday 7 March!"}
    /\ formatted = raw

-----------------------------------------------------------------------------
(* Claims about beautify, under SpecBeautify *)

\* The token-like substrings of s, by the position c of their comma:
\* a word character, the comma, white space, one or two digits, an ordinal
\* suffix, white space and a word taken to its end.
TokenLikeAt(s, c) ==
    IF ~(c >= 2 /\ IsWord(Ch(s, c - 1)) /\ Ch(s, c) = ",") THEN {}
    ELSE
    LET n  == Len(s)
        \* j: last character of the white space after the comma
        J  == {j \in (c + 1)..n : AllSpace(s, c + 1, j)}
        \* dl: number of digits, followed by the suffix
        JD == {jd \in J \X {1, 2} :
                 /\ jd[1] + jd[2] + 2 <= n
                 /\ AllDigit(s, jd[1] + 1, jd[1] + jd[2])
                 /\ SubSeq(s, jd[1] + jd[2] + 1, jd[1] + jd[2] + 2) \in Suffixes}
    IN  UNION {
          \* k: last character of the white space after the suffix,
          \* e: last character of the month word
          {<<jd[1], jd[2], ke[1], ke[2]>> :
              ke \in {x \in ((jd[1] + jd[2] + 3)..n) \X (1..n) :
                        /\ AllSpace(s, jd[1] + jd[2] + 3, x[1])
                        /\ x[2] >= x[1] + 1
                        /\ AllWord(s, x[1] + 1, x[2])
                        /\ (x[2] = n \/ ~IsWord(Ch(s, x[2] + 1)))}} :
          jd \in JD}

\* the day and month words of the first token-like substring of s, if any
FirstTokenLike(s) ==
    LET cs == {c \in 1..Len(s) : TokenLikeAt(s, c) # {}}
    IN  IF cs = {} THEN [found |-> FALSE]
        ELSE LET c == CHOOSE x \in cs : \A y \in cs : x <= y
                 t == CHOOSE x \in TokenLikeAt(s, c) : TRUE
             IN  [found |-> TRUE,
                  day |-> SubSeq(s, t[1] + 1, t[1] + t[2]),
                  month |-> SubSeq(s, t[3] + 1, t[4])]

\* the month (1..12) a word names, in full or by its first three letters,
\* in any case; 0 if none
NamedMonth(word) ==
    LET idx == {i \in 1..12 : MapLower(word) \in {MonthAbbrLower[i], MonthFullLower[i]}}
    IN  IF idx = {} THEN 0 ELSE CHOOSE i \in idx : TRUE

IsTodayWord(v) == v.t = "str" /\ MapLower(Strip(v.s)) = "today"

\* v holds a token-like substring whose first one names a day of a month of
\* year y: the values beautify converts
Convertible(v, y) ==
    /\ v.t = "str"
    /\ ~IsTodayWord(v)
    /\ LET t == FirstTokenLike(Strip(v.s))
       IN  t.found /\ NamedMonth(t.month) # 0
           /\ ParseInt(t.day) \in 1..DaysInMonth(y, NamedMonth(t.month))

\* converting v on the date today raises: its date is 29 February of the
\* current (leap) year, more than 30 days ago, and is re-dated into next year
RaisesOn(v, today) ==
    /\ Convertible(v, today.y)
    /\ LET t == FirstTokenLike(Strip(v.s))
       IN  /\ NamedMonth(t.month) = 2 /\ ParseInt(t.day) = 29
           /\ Ordinal(Date(today.y, 2, 29)) - Ordinal(today) < -30
           /\ ~IsLeap(today.y + 1)

SameKeys(a, b) ==
    /\ Len(a.items) = Len(b.items)
    /\ \A i \in 1..Len(a.items) : a.items[i].k = b.items[i].k

\* out is "<N> Days (<Wkd> <Day><Suffix>)", Wkd, Day and Suffix taken from
\* the input text, N the offset in days from today of that day of a month
\* the input names, in the current or the next year
IsDaysForm(out, inS, today) ==
    \E dl \in {1, 2}, wl \in 1..3 :
        LET L == Len(out)
            nEnd == L - 11 - dl - wl
        IN  /\ nEnd >= 1
            /\ Ch(out, L) = ")"
            /\ SubSeq(out, L - 2, L - 1) \in Suffixes
            /\ AllDigit(out, L - 2 - dl, L - 3)
            /\ Ch(out, L - 3 - dl) = " "
            /\ AllWord(out, L - 3 - dl - wl, L - 4 - dl)
            /\ SubSeq(out, nEnd + 1, nEnd + 7) = " Days ("
            /\ Contains(inS, SubSeq(out, L - 3 - dl - wl, L - 4 - dl))
            /\ Contains(inS, SubSeq(out, L - 2 - dl, L - 1))
            /\ \E m \in 1..12, y \in {today.y, today.y + 1} :
                 LET d == ParseInt(SubSeq(out, L - 2 - dl, L - 3))
                 IN  /\ Contains(MapLower(inS), MonthAbbrLower[m])
                     /\ ValidDate(y, m, d)
                     /\ SubSeq(out, 1, nEnd)
                          = IntStr(Ordinal(Date(y, m, d)) - Ordinal(today))

\* C8: for a mapping input, the output has the same keys and every string
\* value is "Today", "Tomorrow", "<N> Days (<Wkd> <Day><Suffix>)" with N the
\* offset in days from the current date, or the input value verbatim
C8_OutputValueForms ==
    (pc = "beautify_done" /\ input_data.t = "dict") =>
        /\ output.t = "dict"
        /\ SameKeys(output, input_data)
        /\ \A i \in 1..Len(input_data.items) :
             LET vin == input_data.items[i].v
                 vout == output.items[i].v
             IN  \/ vout = vin
                 \/ /\ vin.t = "str" /\ vout.t = "str"
                    /\ \/ vout.s \in {"Today", "Tomorrow"}
                       \/ IsDaysForm(vout.s, vin.s, now)

\* C8 witness: a record with an offset value and a "Today" beside it
C8_Witness ==
    /\ pc = "beautify_done"
    /\ now = Date(FirstYear, 12, 31)
    /\ input_data = Dict(<<Entry("Rubbish", Str("Tuesday, 06th JAN")),
                           Entry("Recycling", Str("today"))>>)
    /\ output = Dict(<<Entry("Rubbish", Str("6 Days (Tue 06th)")),
                       Entry("Recycling", Str("Today"))>>)

\* "<Weekday>, <Day><Suffix> <MON>": full weekday name, Day 1..31, an
\* ordinal suffix, 3-letter upper-case month
IsCanonicalToken(x) ==
    \E w \in Weekdays : StartsWith(x, w) /\
        \E d \in 1..31, sf \in Suffixes, i \in 1..12 :
            x = w \o ", " \o IntStr(d) \o sf \o " " \o MonthAbbr[i]

\* C9 as stated: a value that is not exactly a canonical date token and is
\* not "today" comes out unchanged
C9_Original_Passthrough ==
    (pc = "beautify_done" /\ input_data.t = "dict" /\ output.t = "dict"
        /\ SameKeys(output, input_data)) =>
        \A i \in 1..Len(input_data.items) :
            LET vin == input_data.items[i].v
            IN  (vin.t = "str" /\ ~IsCanonicalToken(vin.s) /\ ~IsTodayWord(vin))
                    => output.items[i].v = vin

\* C9 amended: a value comes out unchanged unless it is "today" or its first
\* substring "<word>, <1-2 digits><st|nd|rd|th> <word>" names a day of a
\* month (full name or first three letters, any case) of the current year
C9_Passthrough ==
    (pc = "beautify_done" /\ input_data.t = "dict") =>
        /\ output.t = "dict"
        /\ SameKeys(output, input_data)
        /\ \A i \in 1..Len(input_data.items) :
             LET vin == input_data.items[i].v
             IN  (~Convertible(vin, now.y) /\ ~IsTodayWord(vin))
                     => output.items[i].v = vin

\* C9 witness: values off the token shape and with an invalid month or day
\* came out unchanged next to a converted one
C9_Witness ==
    /\ pc = "beautify_done"
    /\ input_data.t = "dict" /\ Len(input_data.items) = 2
    /\ input_data.items[1].v \in {Str("Tuesday, 31st APR"), Str("Tuesday, 1st Foo"),
                                  Str("Tuesday, 123rd JAN"), Str("Tomorrow")}
    /\ output.items[1].v = input_data.items[1].v
    /\ input_data.items[2].v = Str("Tuesday, 6th JAN")
    /\ output.items[2].v # input_data.items[2].v

\* C10: the call returns its argument itself when that is not a mapping or
\* when converting some entry raises; otherwise it returns a record with the
\* same keys in which every entry has been processed: "today" and every
\* convertible value replaced by a relative string
C10_AllOrNothing ==
    pc = "beautify_done" =>
        IF input_data.t # "dict" THEN output = input_data
        ELSE IF \E i \in 1..Len(input_data.items) :
                    RaisesOn(input_data.items[i].v, now)
        THEN output = input_data
        ELSE /\ output.t = "dict"
             /\ SameKeys(output, input_data)
             /\ \A i \in 1..Len(input_data.items) :
                  LET vin == input_data.items[i].v
                      vout == output.items[i].v
                  IN  /\ IsTodayWord(vin) => vout = Str("Today")
                      /\ Convertible(vin, now.y) =>
                           /\ vout.t = "str"
                           /\ \/ vout.s \in {"Today", "Tomorrow"}
                              \/ IsDaysForm(vout.s, vin.s, now)

\* C10 witness: the second entry raised (29 February re-dated into a
\* non-leap year) after the first had been converted, and the argument came
\* back whole
C10_Witness ==
    /\ pc = "beautify_done"
    /\ IsLeap(now.y) /\ now.m = 4
    /\ input_data = Dict(<<Entry("Rubbish", Str("today")),
                           Entry("Recycling", Str("Thursday, 29th FEB"))>>)
    /\ output = input_data

\* the month and day of the first token-like substring of a convertible value
TokenMonth(v) == NamedMonth(FirstTokenLike(Strip(v.s)).month)
TokenDay(v) == ParseInt(FirstTokenLike(Strip(v.s)).day)

\* v is the display string of the offset off
ShowsOffset(v, off) ==
    /\ v.t = "str"
    /\ IF off = 0 THEN v.s = "Today"
       ELSE IF off = 1 THEN v.s = "Tomorrow"
       ELSE StartsWith(v.s, IntStr(off) \o " Days (")

\* C11: for every current date and every token naming a day of the current
\* year: when that day falls more than 30 days before the current date the
\* emitted offset is the one to the same day and month of the following year,
\* and is positive; otherwise it is the offset to the day in the current
\* year; no emitted offset is below -30
C11_YearRollover ==
    (pc = "beautify_done" /\ input_data.t = "dict") =>
        \A i \in 1..Len(input_data.items) :
            LET vin == input_data.items[i].v
            IN  Convertible(vin, now.y) =>
                  LET m   == TokenMonth(vin)
                      d   == TokenDay(vin)
                      cur == Ordinal(Date(now.y, m, d)) - Ordinal(now)
                      nxt == Ordinal(Date(now.y + 1, m, d)) - Ordinal(now)
                      off == IF cur < -30 THEN nxt ELSE cur
                  IN  /\ output.t = "dict"
                      /\ SameKeys(output, input_data)
                      /\ ShowsOffset(output.items[i].v, off)
                      /\ cur < -30 => off > 0
                      /\ off >= -30

\* the rollover property on the records none of whose values names
\* 29 February
C11_RolloverWithoutLeapDay ==
    (pc = "beautify_done" /\ input_data.t = "dict"
        /\ \A i \in 1..Len(input_data.items) :
             LET vin == input_data.items[i].v
             IN  Convertible(vin, now.y) =>
                   ~(TokenMonth(vin) = 2 /\ TokenDay(vin) = 29))
    => C11_YearRollover

-----------------------------------------------------------------------------
(* parse_to_json then beautify, as main runs them: SpecEndToEnd *)

\* collection dates lie 0..MaxAhead days after the current date
MaxAhead == 300

\* the date k days after dt
RECURSIVE AddDays(_, _)
AddDays(dt, k) ==
    IF dt.d + k <= DaysInMonth(dt.y, dt.m) THEN Date(dt.y, dt.m, dt.d + k)
    ELSE AddDays(IF dt.m = 12 THEN Date(dt.y + 1, 1, 1)
                 ELSE Date(dt.y, dt.m + 1, 1),
                 k - (DaysInMonth(dt.y, dt.m) - dt.d + 1))

WeekdayNames == <<"Monday", "Tuesday", "Wednesday", "Thursday", "Friday",
                  "Saturday", "Sunday">>

\* the weekday of a date: day 1 of the calendar is a Monday
WeekdayOf(dt) == WeekdayNames[((Ordinal(dt) + 6) % 7) + 1]

\* the phrase the site shows for a collection date
DatePhrase(dt) == WeekdayOf(dt) \o " " \o IntStr(dt.d) \o " " \o Months[dt.m]

\* a fragment of one collection block
OneBlock(hdr, phrase) ==
    Fragment(FALSE,
             <<Wrap(<<hdr, El(<<"rubbish_date_container_left_datetext">>, phrase)>>)>>)

\* current dates of the end-to-end runs
EndToEndDates ==
    {Date(y, md[1], md[2]) :
        y \in FirstYear..LastYear,
        md \in {<<1, 30>>, <<2, 1>>, <<6, 1>>, <<12, 20>>, <<12, 31>>}}
    \cup {Date(y, 2, 29) : y \in {x \in FirstYear..LastYear : IsLeap(x)}}

\* main after a successful scrape of a fragment with one block whose date is
\* 0..MaxAhead days ahead
InitEndToEnd ==
    /\ pc = "main_scraped"
    /\ now \in EndToEndDates
    /\ \E k \in 0..MaxAhead, hdr \in {HdrBlack, HdrGreen, HdrPurple} :
         /\ raw = DatePhrase(AddDays(now, k))
         /\ html_or_error = Html(OneBlock(hdr, raw))
    /\ parsed = None /\ shown = None /\ extracted = None
    /\ calls = <<"scrape_url_get_html">>
    /\ IdleScrape
    /\ formatted = "" /\ html = Fragment(FALSE, <<>>)
    /\ input_data = None /\ output = None
    /\ IdleOutput

NextEndToEnd == MainParse \/ MainBeautify \/ MainShow

SpecEndToEnd == InitEndToEnd /\ [][NextEndToEnd]_vars

\* the category of the block of the run
BlockCategory ==
    LET hdr == html_or_error.frag.nodes[1].els[1]
    IN  IF hdr = HdrBlack THEN "Rubbish"
        ELSE IF hdr = HdrGreen THEN "Recycling" ELSE "Food"

\* the display value for a collection date dt that is k days ahead
DisplayValue(k, dt) ==
    IF k = 0 THEN "Today"
    ELSE IF k = 1 THEN "Tomorrow"
    ELSE IntStr(k) \o " Days (" \o Prefix(WeekdayOf(dt), 3) \o " "
         \o IntStr(dt.d) \o EnglishSuffix(dt.d) \o ")"

\* C12: a block carrying the phrase of the date k days ahead, 0 <= k <= 300,
\* comes out of parse_to_json then beautify as "Today" (k = 0), "Tomorrow"
\* (k = 1) or "<k> Days (<Wkd> <Day><Suffix>)", under the block's category
C12_EndToEndDisplay ==
    pc = "main_beautified" =>
        \A k \in 0..MaxAhead :
            raw = DatePhrase(AddDays(now, k)) =>
                parsed = Dict(<<Entry(BlockCategory,
                                      Str(DisplayValue(k, AddDays(now, k))))>>)

\* the end-to-end property on the runs whose collection date is not a
\* 29 February of the year after the current one
C12_DisplayWithoutNextLeapDay ==
    (pc = "main_beautified"
        /\ ~(IsLeap(now.y + 1) /\ raw = DatePhrase(Date(now.y + 1, 2, 29))))
    => C12_EndToEndDisplay

-----------------------------------------------------------------------------
(* beautify called on its own result: SpecTwice *)

\* the caller passes the record beautify returned to beautify again, on the
\* same current date
BeautifyAgain ==
    /\ pc = "beautify_done"
    /\ input_data' = output
    /\ output' = beautify(output, now)
    /\ pc' = "beautify_twice"
    /\ UNCHANGED <<scrapeVars, html_or_error, parsed, extracted, shown, calls,
                   now, raw, formatted, html>>
    /\ UNCHANGED outputVars

NextTwice == BeautifyCall \/ BeautifyAgain

SpecTwice == InitBeautify /\ [][NextTwice]_vars

\* C13: for a fixed current date the second pass returns the result of the
\* first pass unchanged: beautify(beautify(r)) = beautify(r); "Today",
\* "Tomorrow" and "<N> Days (...)" values of a first pass stay as they are
C13_Idempotent ==
    pc = "beautify_twice" => output = input_data

\* C13 witness: a first pass produced "Today", "Tomorrow" or an offset
\* string from a token, and the second pass has run on it
C13_Witness ==
    /\ pc = "beautify_twice"
    /\ input_data.t = "dict" /\ Len(input_data.items) = 2
    /\ input_data.items[1].v
         \in {Str("Today"), Str("Tomorrow"), Str("6 Days (Tue 06th)"),
              Str("-1 Days (Tue 29th)")}
    /\ input_data.items[2].v = Str("Today")
    /\ output = input_data

-----------------------------------------------------------------------------
(* Claim about the order of the scraper's steps, under Spec *)

\* the six steps of the sequence and the calls that carry them out
StepCalls ==
    [navigate |-> {"goto"},
     fill_and_submit |-> {"fill", "click"},
     wait_for_options |-> {"element_handle", "wait_for_function"},
     select_address |-> {"select_option"},
     wait_for_block |-> {"wait_for_selector"},
     extract |-> {"inner_html"}]

CallsRun == {stepsRun[i] : i \in 1..Len(stepsRun)}

\* C15: the calls made are always an initial part of the fixed sequence, each
\* made once (no retry, no branching); after a call has failed it is the last
\* call made and the call returns an ErrorRecord; an HTML string is returned
\* only when no call failed and all six steps were carried out
C15_StrictSequence ==
    /\ Len(stepsRun) <= Len(Steps)
    /\ \A i \in 1..Len(stepsRun) : stepsRun[i] = Steps[i]
    /\ failedAt # <<>> =>
         /\ stepsRun[Len(stepsRun)] = failedAt[1]
         /\ ScrapeReturned => IsErrorRecord(html_or_error)
    /\ (ScrapeReturned /\ html_or_error.t = "html") =>
         /\ failedAt = <<>>
         /\ \A n \in DOMAIN StepCalls : StepCalls[n] \subseteq CallsRun

\* C15 witness: the wait for the address options failed: the steps before it
\* ran in order, none after it, and an ErrorRecord came back
C15_Witness ==
    /\ pc = "main_done"
    /\ failedAt = <<"wait_for_function", "timeout">>
    /\ stepsRun = SubSeq(Steps, 1, StepIndex("wait_for_function"))
    /\ shown = ErrorRecord("Browser")

-----------------------------------------------------------------------------
(* output.py: the import of the module and show_result: SpecOutput *)

FULL_REFRESH_INTERVAL_SECONDS == 1800
PARTIAL_REFRESH_LIMIT == 50
MIN_REFRESH_SECONDS == 2

\* the clock is read up to MaxSeconds seconds after the start and after one
\* full-refresh interval
MaxSeconds == 4

ClockTimes ==
    {1 + a + b * FULL_REFRESH_INTERVAL_SECONDS : a \in 0..MaxSeconds, b \in 0..1}

\* line 40, "import datetime": the name datetime is the module, and these are
\* the attributes of the module
DatetimeAttributes ==
    {"MINYEAR", "MAXYEAR", "UTC", "date", "datetime", "time", "timedelta",
     "timezone", "tzinfo"}

\* lines 68, 208 and 284: the debug lines evaluate datetime.now(), which
\* raises AttributeError unless the module has an attribute now
DebugStampRaises == "now" \notin DatetimeAttributes

\* dict.get: the value of key k, or None
Get(d, k) ==
    IF k \in Keys(d)
    THEN d.items[CHOOSE i \in 1..Len(d.items) : d.items[i].k = k].v
    ELSE None

\* truth value of an object in "x or y"
Truthy(v) ==
    /\ v # None
    /\ ~(v.t = "str" /\ v.s = "")
    /\ ~(v.t = "int" /\ v.n = 0)

\* result.get(k1) or result.get(k2) or default
GetEither(d, k1, k2, default) ==
    IF Truthy(Get(d, k1)) THEN Get(d, k1)
    ELSE IF Truthy(Get(d, k2)) THEN Get(d, k2) ELSE Str(default)

\* str(value)
ToStr(v) ==
    IF v.t = "str" THEN v.s ELSE IF v.t = "int" THEN IntStr(v.n) ELSE "None"

\* line 186
IsError(result) ==
    result.t = "dict" /\ ("Error" \in Keys(result) \/ "error" \in Keys(result))

\* lines 184-188
ErrorText(result) ==
    IF IsError(result)
    THEN ToStr(GetEither(result, "Error", "error", "Unknown error"))
    ELSE ""

\* lines 181-205: the lines printed to the terminal; the footer line stands
\* for version, address, postcode and time of the update
TerminalLines(result) ==
    <<"Waste Collection">>
    \o (IF result.t = "dict" /\ ~IsError(result)
        THEN <<"Rubbish:   " \o ToStr(GetEither(result, "Rubbish", "rubbish", "-")),
               "Recycling: " \o ToStr(GetEither(result, "Recycling", "recycling", "-")),
               "Food:      " \o ToStr(GetEither(result, "Food", "food", "-"))>>
        ELSE IF IsError(result) THEN <<"Error: " \o ErrorText(result)>>
        ELSE <<"Error: Failed to fetch/parse">>)
    \o <<"footer">>

\* lines 222-233: the rows drawn (before truncation to the panel's width)
PanelRows(result) ==
    IF ~IsError(result) /\ result.t = "dict"
    THEN <<<<"Rubbish:", ToStr(GetEither(result, "Rubbish", "rubbish", "-"))>>,
           <<"Recycling:", ToStr(GetEither(result, "Recycling", "recycling", "-"))>>,
           <<"Food:", ToStr(GetEither(result, "Food", "food", "-"))>>>>
    ELSE <<<<"Error:", IF ErrorText(result) = "" THEN "No data" ELSE ErrorText(result)>>,
           <<"", "">>, <<"", "">>>>

\* lines 253-257
DoFull ==
    \/ last_full_refresh = 0
    \/ clock - last_full_refresh >= FULL_REFRESH_INTERVAL_SECONDS
    \/ partial_count >= PARTIAL_REFRESH_LIMIT

\* results handed to show_result
ShowInputs ==
    {Dict(<<Entry("Rubbish", Str("Today")), Entry("Food", Str("5 Days (Tue 6th)"))>>),
     Dict(<<Entry("recycling", Str("Tomorrow"))>>),
     Dict(<<>>),
     ErrorRecord("Browser"),
     Str("no data")}

\* what the driver can do during lines 251-281: work, raise before the image
\* is on the panel, raise in epd.sleep()
PushOutcomes == {"ok", "fails_early", "fails_at_sleep"}

InitOutput ==
    /\ pc = "output"
    /\ IdleOutput
    /\ IdleScrape /\ IdleMain /\ IdleFormat /\ IdleExtract /\ IdleBeautify

\* lines 55-70: the module is imported; when the driver import raises, the
\* handler runs its debug line first
OutputImport ==
    /\ outModule = "unloaded"
    /\ \E imported \in BOOLEAN :
         IF imported
         THEN /\ driver' = "imported"
              /\ EPD_AVAILABLE' = TRUE
              /\ outModule' = "loaded"
         ELSE /\ driver' = "failed"
              /\ EPD_AVAILABLE' = FALSE
              /\ outModule' = IF DebugStampRaises THEN "failed" ELSE "loaded"
    /\ UNCHANGED <<clock, last_refresh_time, last_full_refresh, partial_count,
                   terminal, panel, showOutcome>>
    /\ UNCHANGED <<pc, scrapeVars, mainVars, calls, now, html, pureVars>>

\* lines 153-284: one call of show_result
ShowResult ==
    /\ outModule = "loaded"
    /\ showOutcome # "raised"
    /\ \E result \in ShowInputs, push \in PushOutcomes :
         /\ shown' = result
         /\ IF last_refresh_time # 0
               /\ clock - last_refresh_time < MIN_REFRESH_SECONDS
            THEN \* lines 167-168
                 /\ showOutcome' = "rate_limited"
                 /\ terminal' = <<>>
                 /\ UNCHANGED <<last_refresh_time, last_full_refresh,
                                partial_count, panel>>
            ELSE /\ last_refresh_time' = clock
                 /\ terminal' = TerminalLines(result)
                 /\ IF ~EPD_AVAILABLE
                    THEN \* lines 207-209
                         /\ showOutcome' = IF DebugStampRaises THEN "raised"
                                           ELSE "returned"
                         /\ UNCHANGED <<last_full_refresh, partial_count, panel>>
                    ELSE \* lines 250-284
                         /\ IF push = "fails_early"
                            THEN UNCHANGED <<last_full_refresh, partial_count,
                                             panel>>
                            ELSE /\ last_full_refresh' =
                                      IF DoFull THEN clock ELSE last_full_refresh
                                 /\ partial_count' =
                                      IF DoFull THEN 0 ELSE partial_count + 1
                                 /\ panel' =
                                      [mode |-> IF DoFull THEN "full" ELSE "partial",
                                       rows |-> PanelRows(result)]
                         /\ showOutcome' =
                              IF push = "ok" THEN "returned"
                              ELSE IF DebugStampRaises THEN "raised"
                              ELSE "returned"
    /\ UNCHANGED <<outModule, driver, EPD_AVAILABLE, clock>>
    /\ UNCHANGED <<pc, scrapeVars, html_or_error, parsed, extracted, calls, now,
                   html, pureVars>>

\* time passes between the calls
Tick ==
    /\ \E t \in ClockTimes : t > clock /\ clock' = t
    /\ UNCHANGED <<outModule, driver, EPD_AVAILABLE, last_refresh_time,
                   last_full_refresh, partial_count, terminal, panel,
                   showOutcome>>
    /\ UNCHANGED <<pc, scrapeVars, mainVars, calls, now, html, pureVars>>

NextOutput == OutputImport \/ ShowResult \/ Tick

SpecOutput == InitOutput /\ [][NextOutput]_vars

\* C14: when the driver import failed the module is loaded all the same, in
\* terminal-only mode; every call of show_result returns normally, also when
\* the push to the panel failed, and a call that was not rate-limited has
\* printed the result to the terminal
C14_DisplayFallback ==
    /\ driver = "failed" => (outModule = "loaded" /\ ~EPD_AVAILABLE)
    /\ showOutcome # "raised"
    /\ showOutcome = "returned" => terminal = TerminalLines(shown)

\* the part of C14 about the panel: a call of show_result returns normally
\* also when the push to the panel failed
C14_PushFailureCaught == showOutcome # "raised"

=============================================================================
